---- MODULE Spec2Model ----
(***************************************************************************)
(* Model of Streamlit_app.py: the Worldwide Price (WWP) pipeline, the Open *)
(* PO (OPO) pipeline, the insight aggregations and the page script main.   *)
(*                                                                         *)
(* A table (DataFrame) is a record [isNone, cols, rows]: cols is the set   *)
(* of column names and rows the sequence of rows, each a function from     *)
(* cols to cells.  A cell is a record [k, n, d, s]: a number n/d (k="num"),*)
(* a text s (k="str", a sequence of characters; a text whose characters    *)
(* are never inspected is written as one token), a date of year n          *)
(* (k="date"), or one of the float specials "nan", "inf", "-inf".          *)
(* Arithmetic is exact (rationals) where the program uses binary floats.   *)
(***************************************************************************)
EXTENDS Integers, Sequences, FiniteSets, TLC

VARIABLES
    pc,              \* which call is in progress / has returned
    df,              \* argument of process_dataframe_wwp
    df_processed,    \* its return value
    st_error,        \* TRUE once st.error(...) was called by the pipeline function
    open_po_df,      \* first argument of process_data_opo, as the caller holds it
    workbench_df,    \* second argument of process_data_opo, as the caller holds it
    processed_df,    \* return value of process_data_opo
    enriched_df,     \* argument of generate_insights_wwp / generate_insights_opo
    insights,        \* the summary returned by generate_insights_*
    analysis_type,   \* the option selected in the sidebar radio
    uploaded_file,   \* what the "Upload WWP Data" uploader returns
    open_po_file,    \* what the "Upload Open PO Report" uploader returns
    workbench_file,  \* what the "Upload Workbench Report" uploader returns
    screen,          \* the elements the last run of main put on the page
    calls,           \* the pipeline functions the last run of main called
    main_raised      \* TRUE if the last run of main ended with an exception

wwpVars == <<df, df_processed>>
opoVars == <<open_po_df, workbench_df, processed_df>>
aggVars == <<enriched_df, insights>>
mainVars == <<analysis_type, uploaded_file, open_po_file, workbench_file, screen, calls,
              main_raised>>
vars == <<pc, st_error, wwpVars, opoVars, aggVars, mainVars>>

---------------------------------------------------------------------------
(* Uploaded files: what a file uploader returns is None (NoFile) or a file, *)
(* which the pandas reader either turns into a table or fails to read.      *)

NoFile == [present |-> FALSE, readable |-> FALSE, cols |-> {}, rows |-> <<>>]
File(t) == [present |-> TRUE, readable |-> TRUE, cols |-> t.cols, rows |-> t.rows]
Unreadable == [present |-> TRUE, readable |-> FALSE, cols |-> {}, rows |-> <<>>]

---------------------------------------------------------------------------
(* Cells and float arithmetic                                              *)

Abs(x) == IF x < 0 THEN -x ELSE x

RECURSIVE GCD(_, _)
GCD(a, b) == IF b = 0 THEN a ELSE GCD(b, a % b)

Rat(n, d) ==
    LET g == GCD(Abs(n), Abs(d))
        sg == IF d < 0 THEN -1 ELSE 1
    IN  [k |-> "num", n |-> (sg * n) \div g, d |-> (sg * d) \div g, s |-> <<>>]

Num(n) == [k |-> "num", n |-> n, d |-> 1, s |-> <<>>]
Str(s) == [k |-> "str", n |-> 0, d |-> 1, s |-> s]
Tok(t) == Str(<<t>>)
Date(y) == [k |-> "date", n |-> y, d |-> 1, s |-> <<>>]
NaN == [k |-> "nan", n |-> 0, d |-> 1, s |-> <<>>]
PosInf == [k |-> "inf", n |-> 0, d |-> 1, s |-> <<>>]
NegInf == [k |-> "-inf", n |-> 0, d |-> 1, s |-> <<>>]

IsFloat(c) == c.k \in {"num", "nan", "inf", "-inf"}

\* a / b on floats: division by zero gives inf, -inf or nan, never an exception
FloatDiv(a, b) ==
    IF a.k = "nan" \/ b.k = "nan" THEN NaN
    ELSE IF a.k = "num" /\ b.k = "num"
         THEN IF b.n = 0
              THEN (IF a.n > 0 THEN PosInf ELSE IF a.n < 0 THEN NegInf ELSE NaN)
              ELSE Rat(a.n * b.d, a.d * b.n)
    ELSE IF a.k = "num" THEN Num(0)
    ELSE IF b.k # "num" THEN NaN
    ELSE IF (a.k = "inf") = (b.n >= 0) THEN PosInf ELSE NegInf

FloatMul(a, b) ==
    IF a.k = "nan" \/ b.k = "nan" THEN NaN
    ELSE IF a.k = "num" /\ b.k = "num" THEN Rat(a.n * b.n, a.d * b.d)
    ELSE LET sa == IF a.k = "num" THEN a.n ELSE IF a.k = "inf" THEN 1 ELSE -1
             sb == IF b.k = "num" THEN b.n ELSE IF b.k = "inf" THEN 1 ELSE -1
         IN  IF sa * sb = 0 THEN NaN ELSE IF sa * sb > 0 THEN PosInf ELSE NegInf

FloatSub(a, b) ==
    IF a.k = "nan" \/ b.k = "nan" THEN NaN
    ELSE IF a.k = "num" /\ b.k = "num" THEN Rat(a.n * b.d - b.n * a.d, a.d * b.d)
    ELSE IF a.k = b.k THEN NaN
    ELSE IF a.k = "inf" \/ b.k = "-inf" THEN PosInf ELSE NegInf

FloatAdd(a, b) ==
    IF a.k = "nan" \/ b.k = "nan" THEN NaN
    ELSE IF a.k = "num" /\ b.k = "num" THEN Rat(a.n * b.d + b.n * a.d, a.d * b.d)
    ELSE IF a.k = "num" THEN b
    ELSE IF b.k = "num" \/ a.k = b.k THEN a
    ELSE NaN

\* a > b on floats: every comparison with nan is False
FloatGt(a, b) ==
    IF a.k = "nan" \/ b.k = "nan" THEN FALSE
    ELSE IF a.k = "num" /\ b.k = "num" THEN a.n * b.d > b.n * a.d
    ELSE IF a.k = b.k THEN FALSE
    ELSE a.k = "inf" \/ b.k = "-inf"

FloatGe(a, b) ==
    IF a.k = "nan" \/ b.k = "nan" THEN FALSE
    ELSE FloatGt(a, b) \/ a = b

FloatLe(a, b) == FloatGe(b, a)

FloatAbs(a) ==
    IF a.k = "num" THEN Rat(Abs(a.n), a.d)
    ELSE IF a.k = "-inf" THEN PosInf
    ELSE a

\* round(2): to the nearest hundredth, a tie going to the even hundredth
Round2(a) ==
    IF a.k # "num" THEN a
    ELSE LET x == a.n * 100
             q == x \div a.d
             r == x % a.d
             up == (2 * r > a.d) \/ (2 * r = a.d /\ q % 2 = 1)
         IN  Rat(IF up THEN q + 1 ELSE q, 100)

---------------------------------------------------------------------------
(* Text                                                                    *)

Digits == {"0", "1", "2", "3", "4", "5", "6", "7", "8", "9"}

DigitVal(c) ==
    CASE c = "0" -> 0 [] c = "1" -> 1 [] c = "2" -> 2 [] c = "3" -> 3
      [] c = "4" -> 4 [] c = "5" -> 5 [] c = "6" -> 6 [] c = "7" -> 7
      [] c = "8" -> 8 [] c = "9" -> 9

\* s.replace(',', '')
ReplaceCommas(s) == SelectSeq(s, LAMBDA c : c # ",")

\* s.startswith(p)
StartsWith(s, p) == Len(s) >= Len(p) /\ SubSeq(s, 1, Len(p)) = p

\* the texts pd.to_numeric parses, among the texts of this model: an optional
\* sign followed by decimal digits
IsNumericText(s) ==
    LET body == IF Len(s) > 0 /\ s[1] = "-" THEN Tail(s) ELSE s
    IN  Len(body) > 0 /\ \A i \in 1..Len(body) : body[i] \in Digits

RECURSIVE ParseDigits(_)
ParseDigits(s) ==
    IF Len(s) = 0 THEN 0
    ELSE 10 * ParseDigits(SubSeq(s, 1, Len(s) - 1)) + DigitVal(s[Len(s)])

ParseNumber(s) ==
    IF s[1] = "-" THEN Num(0 - ParseDigits(Tail(s))) ELSE Num(ParseDigits(s))

---------------------------------------------------------------------------
(* Tables                                                                  *)

None == [isNone |-> TRUE, cols |-> {}, rows |-> <<>>]
Table(cols, rows) == [isNone |-> FALSE, cols |-> cols, rows |-> rows]

Restrict(row, cols) == [c \in cols |-> row[c]]

Column(t, c) == [i \in 1..Len(t.rows) |-> t.rows[i][c]]

\* The row labels (the DataFrame's index) are carried, where they matter, as a
\* pseudo-column INDEX of cells of kind "idx": no dtype selection sees it, and
\* renaming, masking, column assignment and rounding hand it on untouched.
INDEX == "(index)"
Idx(i) == [k |-> "idx", n |-> i, d |-> 1, s |-> <<>>]

\* the RangeIndex 0, 1, 2, ... a reader gives a new table
Indexed(t) ==
    Table(t.cols \cup {INDEX}, [i \in 1..Len(t.rows) |-> (INDEX :> Idx(i - 1)) @@ t.rows[i]])

\* the mask applied from the last row to the first
Mutant_SelectRows(rows, mask) ==
    LET kept == {i \in 1..Len(rows) : mask[i]}
        nth(j) == CHOOSE i \in kept : Cardinality({m \in kept : m > i}) = j - 1
    IN  [j \in 1..Cardinality(kept) |-> rows[nth(j)]]

RECURSIVE SelectRows(_, _)
\* boolean-mask indexing df[mask]: the rows whose mask is True, in order
SelectRows(rows, mask) ==
    IF Len(rows) = 0 THEN <<>>
    ELSE LET rest == SelectRows(Tail(rows), Tail(mask))
         IN  IF Head(mask) THEN <<Head(rows)>> \o rest ELSE rest

\* df.rename(columns=mapping): a new table, unmapped columns pass through
RenameColumns(t, mapping) ==
    LET new(c) == IF c \in DOMAIN mapping THEN mapping[c] ELSE c
        cols2 == {new(c) : c \in t.cols}
        old(c2) == CHOOSE c \in t.cols : new(c) = c2
    IN  Table(cols2, [i \in 1..Len(t.rows) |-> [c2 \in cols2 |-> t.rows[i][old(c2)]]])

\* df[c] = values: sets or appends a column
WithColumn(t, c, values) ==
    Table(t.cols \cup {c},
          [i \in 1..Len(t.rows) |-> (c :> values[i]) @@ t.rows[i]])

---------------------------------------------------------------------------
(* Worldwide Price Analysis: process_dataframe_wwp                         *)

column_mapping ==
    ("Part Number (Standardized)" :> "Part Number")
 @@ ("Supplier DUNS Elementary Code" :> "DUNS Elementary Code")
 @@ ("Next 12m Projection Quantity (Normalized UoM)" :> "12m Projection Quantity")
 @@ ("Line Price (EUR/NUoM) (Includes SQL FX)" :> "Unit Price in Euros")
 @@ ("CPR:Best Line Price (including Logistics Simulation Delta if any) (EUR/NUoM) (Global)"
        :> "Best Price in Euros")
 @@ ("CPR:Quantity of Best Price Line (NUoM) (Global)" :> "Best Price Quantity")
 @@ ("CPR:Site Name of Best Price Line (Global)" :> "Best Price Site")
 @@ ("CPR:Site Region of Best Price Line (Global)" :> "Best Price Region")
 @@ ("CPR:Supplier Name of Best Price Line (Global)" :> "Best Price Supplier")
 @@ ("CPR:Total Opportunity (EUR), including Logistics Simulation (Global)"
        :> "Total Opportunity")

india_sites ==
    {Tok("IN Bangalore ITB"), Tok("IN Chennai"), Tok("IN Hyderabad"),
     Tok("IN Bangalore SEPFC")}

category_codes ==
    {<<"A">>, <<"B">>, <<"C">>, <<"D">>, <<"H">>, <<"K">>, <<"G">>, <<"E">>,
     <<"P", "1">>, <<"P", "2">>, <<"M", "1">>, <<"M", "2">>}

SpendThreshold == 50000
OpportunityThreshold == -5000
RatioThreshold == 5
Percent == 100

\* a column has dtype object when it holds a text cell
IsObjectColumn(t, c) == \E i \in 1..Len(t.rows) : t.rows[i][c].k = "str"

\* pd.to_numeric(df[col].str.replace(',', '')) inside try/except-pass: the
\* .str accessor gives NaN for a cell that is not text, and one text that does
\* not parse leaves the whole column as it was
CoerceColumn(t, c) ==
    LET cells == Column(t, c)
        replaced == [i \in DOMAIN cells |->
                        IF cells[i].k = "str" THEN Str(ReplaceCommas(cells[i].s))
                        ELSE NaN]
        parses == \A i \in DOMAIN cells :
                     replaced[i].k = "str" => IsNumericText(replaced[i].s)
    IN  IF IsObjectColumn(t, c) /\ parses
        THEN [i \in DOMAIN cells |->
                 IF replaced[i].k = "str" THEN ParseNumber(replaced[i].s) ELSE NaN]
        ELSE cells

CoerceObjectColumns(t) ==
    Table(t.cols,
          [i \in 1..Len(t.rows) |-> [c \in t.cols |-> CoerceColumn(t, c)[i]]])

\* (df['Site Name'].isin(india_sites)) & (df['Category Code'].str.startswith(category_codes))
SiteCategoryMask(t) ==
    [i \in 1..Len(t.rows) |->
        /\ t.rows[i]["Site Name"] \in india_sites
        /\ t.rows[i]["Category Code"].k = "str"
        /\ \E p \in category_codes : StartsWith(t.rows[i]["Category Code"].s, p)]

\* KeyError for a missing column, AttributeError for .str on a numeric column
SiteCategoryRaises(t) ==
    \/ ~({"Site Name", "Category Code"} \subseteq t.cols)
    \/ ~IsObjectColumn(t, "Category Code")

\* the spend comparison off by one boundary (>= for >)
Mutant_SpendRegionMask(t) ==
    [i \in 1..Len(t.rows) |->
        /\ FloatGe(t.rows[i]["Spend (EUR)"], Num(50000))
        /\ t.rows[i]["Best Price Region"] # Tok("India / MEA")
        /\ FloatLe(t.rows[i]["Total Opportunity"], Num(-5000))]

SpendRegionMask(t) ==
    [i \in 1..Len(t.rows) |->
        /\ FloatGt(t.rows[i]["Spend (EUR)"], Num(SpendThreshold))
        /\ t.rows[i]["Best Price Region"] # Tok("India / MEA")
        /\ FloatLe(t.rows[i]["Total Opportunity"], Num(OpportunityThreshold))]

\* KeyError for a missing column, TypeError for a text compared with a number
SpendRegionRaises(t) ==
    \/ ~({"Spend (EUR)", "Best Price Region", "Total Opportunity"} \subseteq t.cols)
    \/ \E i \in 1..Len(t.rows) :
          ~IsFloat(t.rows[i]["Spend (EUR)"]) \/ ~IsFloat(t.rows[i]["Total Opportunity"])

QtyProjection(row) ==
    FloatMul(FloatDiv(row["Best Price Quantity"], row["12m Projection Quantity"]),
             Num(Percent))

QtyProjectionRaises(t) ==
    \/ ~({"Best Price Quantity", "12m Projection Quantity"} \subseteq t.cols)
    \/ \E i \in 1..Len(t.rows) :
          \/ ~IsFloat(t.rows[i]["Best Price Quantity"])
          \/ ~IsFloat(t.rows[i]["12m Projection Quantity"])

OneTimeBuyMask(t) ==
    [i \in 1..Len(t.rows) |-> FloatGt(t.rows[i]["Qty/projection"], Num(RatioThreshold))]

\* df[col].round(2) for the float64 columns; round leaves an integer as it is
RoundFloatColumns(t) ==
    Table(t.cols,
          [i \in 1..Len(t.rows) |->
              [c \in t.cols |-> IF IsFloat(t.rows[i][c]) THEN Round2(t.rows[i][c])
                                ELSE t.rows[i][c]]])

Raised == [value |-> None, error |-> TRUE]
Returned(t) == [value |-> t, error |-> FALSE]

\* The whole function: value is the returned table or None, error says
\* whether the except branch called st.error.
process_dataframe_wwp(input) ==
    LET renamed == RenameColumns(input, column_mapping)
        coerced == CoerceObjectColumns(renamed)
    IN  IF SiteCategoryRaises(coerced) THEN Raised
        ELSE
        LET filtered1 == Table(coerced.cols,
                               SelectRows(coerced.rows, SiteCategoryMask(coerced)))
        IN  IF SpendRegionRaises(filtered1) THEN Raised
            ELSE
            LET filtered2 == Table(filtered1.cols,
                                   SelectRows(filtered1.rows, SpendRegionMask(filtered1)))
            IN  IF QtyProjectionRaises(filtered2) THEN Raised
                ELSE
                LET ratio == WithColumn(filtered2, "Qty/projection",
                                 [i \in 1..Len(filtered2.rows) |->
                                     QtyProjection(filtered2.rows[i])])
                    filtered3 == Table(ratio.cols,
                                       SelectRows(ratio.rows, OneTimeBuyMask(ratio)))
                    withAbs == WithColumn(filtered3, "Absolute Opportunity",
                                 [i \in 1..Len(filtered3.rows) |->
                                     FloatAbs(filtered3.rows[i]["Total Opportunity"])])
                IN  Returned(RoundFloatColumns(withAbs))

---------------------------------------------------------------------------
(* Open PO Analysis: convert_to_euro and process_data_opo.  A column name  *)
(* of these tables is a sequence of tokens, a blank being the token " ",   *)
(* so that a header with stray blanks can be told from the stripped one.   *)

N(name) == <<name>>

RECURSIVE LStrip(_)
LStrip(name) ==
    IF Len(name) > 0 /\ name[1] = " " THEN LStrip(Tail(name)) ELSE name

RECURSIVE RStrip(_)
RStrip(name) ==
    IF Len(name) > 0 /\ name[Len(name)] = " "
    THEN RStrip(SubSeq(name, 1, Len(name) - 1)) ELSE name

\* str.strip() of a column name
StripName(name) == RStrip(LStrip(name))

\* df.columns = df.columns.str.strip()
StripColumns(t) ==
    LET cols2 == {StripName(c) : c \in t.cols}
        old(c2) == CHOOSE c \in t.cols : StripName(c) = c2
    IN  Table(cols2, [i \in 1..Len(t.rows) |-> [c2 \in cols2 |-> t.rows[i][old(c2)]]])

CONVERSION_RATES ==
    (Tok("USD") :> Rat(93, 100)) @@ (Tok("GBP") :> Rat(12, 10))
 @@ (Tok("INR") :> Rat(11, 1000)) @@ (Tok("JPY") :> Rat(61, 10000))

\* an unknown currency gives no price (None) instead of the price unchanged
Mutant_convert_to_euro(price, currency) ==
    IF currency \in DOMAIN CONVERSION_RATES
    THEN FloatMul(price, CONVERSION_RATES[currency])
    ELSE NaN

convert_to_euro(price, currency) ==
    IF currency \in DOMAIN CONVERSION_RATES
    THEN FloatMul(price, CONVERSION_RATES[currency])
    ELSE price

\* price * rate raises TypeError when the price is a text and the currency is known
ConvertRaises(price, currency) ==
    currency \in DOMAIN CONVERSION_RATES /\ ~IsFloat(price)

RECURSIVE Flatten(_)
Flatten(ss) == IF Len(ss) = 0 THEN <<>> ELSE Head(ss) \o Flatten(Tail(ss))

\* the join on the part number alone, the vendor number ignored
Mutant_MergeInner(left, right, left_on, right_on) ==
    LET cols == left.cols \cup right.cols
        match(l, r) == l[left_on[1]] = r[right_on[1]]
        join(l, r) == [c \in cols |-> IF c \in left.cols THEN l[c] ELSE r[c]]
        matches(l) == SelectSeq(right.rows, LAMBDA r : match(l, r))
        joined(l) == [j \in 1..Len(matches(l)) |-> join(l, matches(l)[j])]
    IN  Table(cols, Flatten([i \in 1..Len(left.rows) |-> joined(left.rows[i])]))

\* pd.merge(left, right, left_on=..., right_on=..., how='inner'): one row per
\* pair of a left and a right row with equal keys, in the order of the left
\* rows; the two tables share no column but the keys named alike
MergeInner(left, right, left_on, right_on) ==
    LET cols == left.cols \cup right.cols
        match(l, r) == \A i \in 1..Len(left_on) : l[left_on[i]] = r[right_on[i]]
        join(l, r) == [c \in cols |-> IF c \in left.cols THEN l[c] ELSE r[c]]
        matches(l) == SelectSeq(right.rows, LAMBDA r : match(l, r))
        joined(l) == [j \in 1..Len(matches(l)) |-> join(l, matches(l)[j])]
    IN  Table(cols, Flatten([i \in 1..Len(left.rows) |-> joined(left.rows[i])]))

MergeRaises(left, right, left_on, right_on) ==
    \/ \E i \in 1..Len(left_on) : left_on[i] \notin left.cols
    \/ \E i \in 1..Len(right_on) : right_on[i] \notin right.cols

\* merged_df.drop(c, axis=1)
DropColumn(t, c) ==
    Table(t.cols \ {c}, [i \in 1..Len(t.rows) |-> Restrict(t.rows[i], t.cols \ {c})])

LowerCase ==
    <<"a", "b", "c", "d", "e", "f", "g", "h", "i", "j", "k", "l", "m",
      "n", "o", "p", "q", "r", "s", "t", "u", "v", "w", "x", "y", "z">>
UpperCase ==
    <<"A", "B", "C", "D", "E", "F", "G", "H", "I", "J", "K", "L", "M",
      "N", "O", "P", "Q", "R", "S", "T", "U", "V", "W", "X", "Y", "Z">>

\* str.upper()
Upper(s) ==
    [i \in 1..Len(s) |->
        IF \E j \in 1..Len(LowerCase) : LowerCase[j] = s[i]
        THEN UpperCase[CHOOSE j \in 1..Len(LowerCase) : LowerCase[j] = s[i]]
        ELSE s[i]]

\* sub in s
Contains(s, sub) ==
    \E i \in 0..(Len(s) - Len(sub)) : SubSeq(s, i + 1, i + Len(sub)) = sub

\* 'IG' if 'SCHNEIDER' in str(x).upper() or 'WUXI' in str(x).upper() else 'OG';
\* str(x) of a cell that is no text holds no letter of either word but "nan"
Classify(x) ==
    LET text == IF x.k = "str" THEN Upper(x.s) ELSE <<>>
    IN  IF \/ Contains(text, <<"S", "C", "H", "N", "E", "I", "D", "E", "R">>)
           \/ Contains(text, <<"W", "U", "X", "I">>)
        THEN Tok("IG") ELSE Tok("OG")

EpochYear == 1970

\* pd.to_datetime(x).dt.year
YearOf(x) ==
    IF x.k = "date" THEN Num(x.n)
    ELSE IF x.k = "num" THEN Num(EpochYear)
    ELSE NaN

\* a text that is no date raises a parse error
YearRaises(x) == x.k = "str"

OPO_RENAMES ==
    (N("DANDB") :> N("VENDOR_DUNS"))
 @@ (N("CURRENCY_CODE") :> N("CURRENCY_CODE_WB"))
 @@ (N("CURRNECY") :> N("CURRENCY_CODE_OPO"))

\* open_po_df[open_po_df['LINE_TYPE'] == 'Inventory']
InventoryRows(o) ==
    Table(o.cols,
          SelectRows(o.rows,
                     [i \in 1..Len(o.rows) |-> o.rows[i][N("LINE_TYPE")] = Tok("Inventory")]))

\* the merge of the two renamed tables, the key column dropped, columns renamed
JoinedRecordSet(o, w) ==
    RenameColumns(
        DropColumn(
            MergeInner(RenameColumns(StripColumns(w), N("UNIT_PRICE") :> N("UNIT_PRICE_WB")),
                       RenameColumns(StripColumns(InventoryRows(o)),
                                     N("UNIT_PRICE") :> N("UNIT_PRICE_OPO")),
                       <<N("PART_NUMBER"), N("VENDOR_NUM")>>,
                       <<N("ITEM"), N("VENDOR_NUM")>>),
            N("ITEM")),
        OPO_RENAMES)

JoinRaises(o, w) ==
    MergeRaises(RenameColumns(StripColumns(w), N("UNIT_PRICE") :> N("UNIT_PRICE_WB")),
                RenameColumns(StripColumns(InventoryRows(o)),
                              N("UNIT_PRICE") :> N("UNIT_PRICE_OPO")),
                <<N("PART_NUMBER"), N("VENDOR_NUM")>>,
                <<N("ITEM"), N("VENDOR_NUM")>>)

\* IG/OG, PO Year and the two prices converted to EUR
WithConversions(t) ==
    LET a == WithColumn(t, N("IG/OG"),
                 [i \in 1..Len(t.rows) |-> Classify(t.rows[i][N("VENDOR_NAME")])])
        b == WithColumn(a, N("PO Year"),
                 [i \in 1..Len(a.rows) |-> YearOf(a.rows[i][N("PO_SHIPMENT_CREATION_DATE")])])
        c == WithColumn(b, N("UNIT_PRICE_WB_EUR"),
                 [i \in 1..Len(b.rows) |->
                     convert_to_euro(b.rows[i][N("UNIT_PRICE_WB")],
                                     b.rows[i][N("CURRENCY_CODE_WB")])])
    IN  WithColumn(c, N("UNIT_PRICE_OPO_EUR"),
            [i \in 1..Len(c.rows) |->
                convert_to_euro(c.rows[i][N("UNIT_PRICE_OPO")],
                                c.rows[i][N("CURRENCY_CODE_OPO")])])

ConversionsRaise(t) ==
    \/ ~({N("VENDOR_NAME"), N("PO_SHIPMENT_CREATION_DATE"), N("UNIT_PRICE_WB"),
          N("CURRENCY_CODE_WB"), N("UNIT_PRICE_OPO"), N("CURRENCY_CODE_OPO")}
            \subseteq t.cols)
    \/ \E i \in 1..Len(t.rows) :
          \/ YearRaises(t.rows[i][N("PO_SHIPMENT_CREATION_DATE")])
          \/ ConvertRaises(t.rows[i][N("UNIT_PRICE_WB")], t.rows[i][N("CURRENCY_CODE_WB")])
          \/ ConvertRaises(t.rows[i][N("UNIT_PRICE_OPO")], t.rows[i][N("CURRENCY_CODE_OPO")])

\* the delta of the prices as given, before their conversion to EUR
Mutant_WithMetrics(t) ==
    LET a == WithColumn(t, N("Price_Delta"),
                 [i \in 1..Len(t.rows) |->
                     FloatSub(t.rows[i][N("UNIT_PRICE_OPO")],
                              t.rows[i][N("UNIT_PRICE_WB")])])
        b == WithColumn(a, N("Impact in Euros"),
                 [i \in 1..Len(a.rows) |->
                     FloatMul(a.rows[i][N("Price_Delta")],
                              a.rows[i][N("QTY_ELIGIBLE_TO_SHIP")])])
    IN  WithColumn(b, N("Open PO Value"),
            [i \in 1..Len(b.rows) |->
                FloatMul(b.rows[i][N("QTY_ELIGIBLE_TO_SHIP")],
                         b.rows[i][N("UNIT_PRICE_OPO_EUR")])])

\* Price_Delta, Impact in Euros and Open PO Value
WithMetrics(t) ==
    LET a == WithColumn(t, N("Price_Delta"),
                 [i \in 1..Len(t.rows) |->
                     FloatSub(t.rows[i][N("UNIT_PRICE_OPO_EUR")],
                              t.rows[i][N("UNIT_PRICE_WB_EUR")])])
        b == WithColumn(a, N("Impact in Euros"),
                 [i \in 1..Len(a.rows) |->
                     FloatMul(a.rows[i][N("Price_Delta")],
                              a.rows[i][N("QTY_ELIGIBLE_TO_SHIP")])])
    IN  WithColumn(b, N("Open PO Value"),
            [i \in 1..Len(b.rows) |->
                FloatMul(b.rows[i][N("QTY_ELIGIBLE_TO_SHIP")],
                         b.rows[i][N("UNIT_PRICE_OPO_EUR")])])

\* TypeError for arithmetic on a text
MetricsRaise(t) ==
    \/ N("QTY_ELIGIBLE_TO_SHIP") \notin t.cols
    \/ \E i \in 1..Len(t.rows) :
          \/ ~IsFloat(t.rows[i][N("UNIT_PRICE_OPO_EUR")])
          \/ ~IsFloat(t.rows[i][N("UNIT_PRICE_WB_EUR")])
          \/ ~IsFloat(t.rows[i][N("QTY_ELIGIBLE_TO_SHIP")])

\* the sort ascending instead of descending
Mutant_SortsBefore(a, b, c) ==
    \/ a[c].k # "nan" /\ b[c].k = "nan"
    \/ FloatGt(b[c], a[c])

\* a must come before b in a descending sort on column c, NaN last
SortsBefore(a, b, c) ==
    \/ a[c].k # "nan" /\ b[c].k = "nan"
    \/ FloatGt(a[c], b[c])

RECURSIVE DescendingOrders(_, _, _)
\* sort_values(c, ascending=False) with the default, unstable sort: every
\* descending arrangement of the rows indexed by idx; rows with equal keys
\* may come out in any order
DescendingOrders(rows, idx, c) ==
    IF idx = {} THEN {<<>>}
    ELSE LET first == {i \in idx : \A j \in idx : ~SortsBefore(rows[j], rows[i], c)}
             \* one index for each distinct row that may come first
             pick == {i \in first : \A j \in first : rows[j] = rows[i] => i <= j}
         IN  UNION {{<<rows[i]>> \o rest : rest \in DescendingOrders(rows, idx \ {i}, c)} :
                       i \in pick}

\* The whole function: error says whether the except branch ran (st.error,
\* return None), values are the tables the call may return, and workbench_df
\* is the caller's workbench table after the call: its header is stripped in
\* place (line 207), the Open PO table is rebound to a filtered copy first.
process_data_opo(o, w) ==
    IF N("LINE_TYPE") \notin o.cols
    THEN [error |-> TRUE, values |-> {None}, workbench_df |-> w]
    ELSE IF JoinRaises(o, w)
    THEN [error |-> TRUE, values |-> {None}, workbench_df |-> StripColumns(w)]
    ELSE
    LET joined == JoinedRecordSet(o, w)
    IN  IF ConversionsRaise(joined)
        THEN [error |-> TRUE, values |-> {None}, workbench_df |-> StripColumns(w)]
        ELSE
        LET converted == WithConversions(joined)
        IN  IF MetricsRaise(converted)
            THEN [error |-> TRUE, values |-> {None}, workbench_df |-> StripColumns(w)]
            ELSE
            LET enriched == WithMetrics(converted)
            IN  [error |-> FALSE,
                 values |-> {Table(enriched.cols, rows) :
                                rows \in DescendingOrders(enriched.rows,
                                                          1..Len(enriched.rows),
                                                          N("Impact in Euros"))},
                 workbench_df |-> StripColumns(w)]

---------------------------------------------------------------------------
(* Insight summaries: generate_insights_wwp and generate_insights_opo      *)

RECURSIVE SumCells(_)
\* Series.sum(): NaN is skipped, the sum of nothing is 0
SumCells(cells) ==
    IF Len(cells) = 0 THEN Num(0)
    ELSE IF Head(cells).k = "nan" THEN SumCells(Tail(cells))
    ELSE FloatAdd(Head(cells), SumCells(Tail(cells)))

\* Series.mean(): NaN is skipped, the mean of nothing is NaN
MeanCells(cells) ==
    LET valid == SelectSeq(cells, LAMBDA x : x.k # "nan")
    IN  FloatDiv(SumCells(valid), Num(Len(valid)))

\* Series.nunique(): the number of distinct values, NaN not counted
NUnique(cells) == Cardinality({cells[i] : i \in 1..Len(cells)} \ {NaN})

\* df.groupby(by)[target].sum(): one entry per value of column by, NaN keys dropped
GroupSums(t, by, target) ==
    {[key |-> k,
      sum |-> SumCells(Column(Table(t.cols,
                                    SelectSeq(t.rows, LAMBDA r : r[by] = k)),
                              target))] :
        k \in {t.rows[i][by] : i \in 1..Len(t.rows)} \ {NaN}}

Mutant_MayLead(e, entries) == \A x \in entries : ~SortsBefore(e, x, "sum")

\* e may come first in a descending sort of the entries: none has to precede it
MayLead(e, entries) == \A x \in entries : ~SortsBefore(x, e, "sum")

RECURSIVE TopOrders(_, _)
\* sort_values(ascending=False).head(k) with the default, unstable sort: the
\* first k entries of every descending arrangement
TopOrders(entries, k) ==
    IF entries = {} \/ k = 0 THEN {<<>>}
    ELSE UNION {{<<e>> \o rest : rest \in TopOrders(entries \ {e}, k - 1)} :
                   e \in {x \in entries : MayLead(x, entries)}}

TopCount == 5

\* None, where a summary is expected
NoSummary == [isNone |-> TRUE, raised |-> FALSE]

\* the summaries generate_insights_wwp may return (the order of equal sums is
\* not determined); a missing column raises KeyError out of the function
generate_insights_wwp(t) ==
    IF ~({"Total Opportunity", "Qty/projection", "Supplier Name", "Category Code",
          "Absolute Opportunity"} \subseteq t.cols)
    THEN {[isNone |-> FALSE, raised |-> TRUE]}
    ELSE {[isNone |-> FALSE, raised |-> FALSE,
           total_opportunity |-> SumCells(Column(t, "Total Opportunity")),
           avg_qty_projection |-> MeanCells(Column(t, "Qty/projection")),
           top_suppliers |-> s,
           top_categories |-> c] :
             s \in TopOrders(GroupSums(t, "Supplier Name", "Absolute Opportunity"), TopCount),
             c \in TopOrders(GroupSums(t, "Category Code", "Absolute Opportunity"), TopCount)}

\* the summaries generate_insights_opo may return: None for None or an empty table
generate_insights_opo(t) ==
    IF t.isNone \/ Len(t.rows) = 0
    THEN {[isNone |-> TRUE, raised |-> FALSE]}
    ELSE IF ~({N("Impact in Euros"), N("Open PO Value"), N("PART_NUMBER"),
               N("VENDOR_NAME"), N("STARS Category Code")} \subseteq t.cols)
    THEN {[isNone |-> FALSE, raised |-> TRUE]}
    ELSE {[isNone |-> FALSE, raised |-> FALSE,
           total_impact |-> SumCells(Column(t, N("Impact in Euros"))),
           total_po_value |-> SumCells(Column(t, N("Open PO Value"))),
           distinct_parts_count |-> NUnique(Column(t, N("PART_NUMBER"))),
           unique_vendors |-> NUnique(Column(t, N("VENDOR_NAME"))),
           impact_by_vendor |-> v,
           impact_by_category |-> c] :
             v \in TopOrders(GroupSums(t, N("VENDOR_NAME"), N("Impact in Euros")), TopCount),
             c \in TopOrders(GroupSums(t, N("STARS Category Code"), N("Impact in Euros")),
                             TopCount)}


---------------------------------------------------------------------------
(* Inputs of the WWP pipeline: the Scenario A record of the specification, *)
(* and that record with one field replaced by a value at or across the     *)
(* boundary of the predicate that reads the field.                         *)

MaxRowsWWP == 2

COL_OPP == "CPR:Total Opportunity (EUR), including Logistics Simulation (Global)"
COL_BPQ == "CPR:Quantity of Best Price Line (NUoM) (Global)"
COL_PROJ == "Next 12m Projection Quantity (Normalized UoM)"
COL_REGION == "CPR:Site Region of Best Price Line (Global)"

WWPColumns ==
    {"Site Name", "Category Code", "Spend (EUR)", "Supplier Name",
     COL_REGION, COL_OPP, COL_BPQ, COL_PROJ}

ScenarioA ==
    ("Site Name" :> Tok("IN Chennai"))
 @@ ("Category Code" :> Str(<<"A", "1">>))
 @@ ("Spend (EUR)" :> Num(60000))
 @@ ("Supplier Name" :> Tok("S1"))
 @@ (COL_REGION :> Tok("EU"))
 @@ (COL_OPP :> Num(-6000))
 @@ (COL_BPQ :> Num(10))
 @@ (COL_PROJ :> Num(100))

ScenarioB == [ScenarioA EXCEPT !["Spend (EUR)"] = Num(40000)]

WWPVariants ==
    {<<"Site Name", Tok("US Boston")>>, <<"Site Name", Tok("IN Hyderabad")>>,
     <<"Category Code", Str(<<"P", "1">>)>>, <<"Category Code", Str(<<"P", "3">>)>>,
     <<"Category Code", Str(<<"M">>)>>, <<"Category Code", Str(<<"a", "1">>)>>,
     <<"Spend (EUR)", Num(40000)>>, <<"Spend (EUR)", Num(50000)>>,
     <<"Spend (EUR)", Str(<<"7", "0", ",", "0", "0", "0">>)>>,
     <<"Spend (EUR)", Tok("n/a")>>,
     <<"Supplier Name", Tok("S2")>>,
     <<COL_REGION, Tok("India / MEA")>>,
     <<COL_OPP, Num(-5000)>>, <<COL_OPP, Num(-4000)>>,
     <<COL_BPQ, Num(5)>>, <<COL_BPQ, Num(0)>>,
     <<COL_PROJ, Num(0)>>, <<COL_PROJ, Num(30)>>}

WWPRows == {ScenarioA} \cup {[ScenarioA EXCEPT ![v[1]] = v[2]] : v \in WWPVariants}

SeqsUpTo(S, n) == UNION {[1..m -> S] : m \in 1..n}

\* files with one column missing
WWPTablesShort ==
    {Table(WWPColumns \ {c}, <<Restrict(ScenarioA, WWPColumns \ {c})>>) : c \in WWPColumns}

\* files with every column, and files with one column missing
WWPTables ==
    {Table(WWPColumns, rows) : rows \in SeqsUpTo(WWPRows, MaxRowsWWP)} \cup WWPTablesShort

---------------------------------------------------------------------------
(* A direct call of process_dataframe_wwp(df)                              *)

NoWWPCall == df = None /\ df_processed = None
NoOPOCall == open_po_df = None /\ workbench_df = None /\ processed_df = None
NoAggCall == enriched_df = None /\ insights = NoSummary
NoMainRun ==
    /\ analysis_type = "" /\ uploaded_file = NoFile /\ open_po_file = NoFile
    /\ workbench_file = NoFile /\ screen = {} /\ calls = {} /\ main_raised = FALSE

InitWWP ==
    /\ pc = "wwp"
    /\ df \in WWPTables \cup {Indexed(t) : t \in WWPTables}
    /\ df_processed = None
    /\ st_error = FALSE
    /\ NoOPOCall /\ NoAggCall /\ NoMainRun

CallProcessWWP ==
    /\ pc = "wwp"
    /\ LET r == process_dataframe_wwp(df)
       IN  /\ df_processed' = r.value
           /\ st_error' = r.error
    /\ pc' = "wwp_returned"
    /\ UNCHANGED <<df, opoVars, aggVars, mainVars>>

NextWWP == CallProcessWWP

SpecWWP == InitWWP /\ [][NextWWP]_vars

\* the Canonical Record Set: the input after renaming and numeric coercion
CanonicalRecordSet(input) == CoerceObjectColumns(RenameColumns(input, column_mapping))

C1_Retained(row) ==
    LET cat == row["Category Code"]
        spend == row["Spend (EUR)"]
        opp == row["Total Opportunity"]
        q == row["Best Price Quantity"]
        p == row["12m Projection Quantity"]
    IN  /\ row["Site Name"] \in {Tok("IN Bangalore ITB"), Tok("IN Chennai"),
                                 Tok("IN Hyderabad"), Tok("IN Bangalore SEPFC")}
        /\ cat.k = "str"
        /\ \/ Len(cat.s) >= 1 /\ cat.s[1] \in {"A", "B", "C", "D", "H", "K", "G", "E"}
           \/ Len(cat.s) >= 2 /\ <<cat.s[1], cat.s[2]>> \in
                 {<<"P", "1">>, <<"P", "2">>, <<"M", "1">>, <<"M", "2">>}
        /\ spend.k = "num" /\ spend.n > 50000 * spend.d
        /\ row["Best Price Region"] # Tok("India / MEA")
        /\ opp.k = "num" /\ opp.n <= (-5000) * opp.d
        /\ q.k = "num" /\ p.k = "num"
        /\ IF p.n = 0 THEN q.n > 0      \* a float division by zero: +inf > 5
           ELSE IF p.n > 0 THEN 100 * q.n * p.d > 5 * q.d * p.n
           ELSE 100 * q.n * p.d < 5 * q.d * p.n

\* C1: when process_dataframe_wwp succeeds, the rows it returns are exactly the
\* rows of the Canonical Record Set for which all six predicates hold (site in
\* the allow-list, category code starting with one of the 12 prefixes, spend >
\* 50000, region not 'India / MEA', opportunity <= -5000, quantity ratio in
\* percent > 5), in the input's order.
C1_FilterContract ==
    (pc = "wwp_returned" /\ ~df_processed.isNone) =>
        LET canonical == CanonicalRecordSet(df)
        IN  [i \in 1..Len(df_processed.rows) |->
                Restrict(df_processed.rows[i], canonical.cols)]
            = SelectSeq(canonical.rows, C1_Retained)

\* Scenario A is retained and Scenario B, in the same file, is not
C1_Witness ==
    /\ pc = "wwp_returned"
    /\ df.rows = <<ScenarioB, ScenarioA>>
    /\ ~df_processed.isNone
    /\ Len(df_processed.rows) = 1
    /\ df_processed.rows[1]["Spend (EUR)"] = Num(60000)

---------------------------------------------------------------------------
(* Inputs of the OPO pipeline: the two Scenario C records of the           *)
(* specification, and each with one field replaced.  The columns are the   *)
(* ones main reads from the two workbooks.                                 *)

MaxRowsOPO == 2
MaxRowsWB == 2

ORDER_TYPE_HEADER == <<" ", " ", " ", " ", " ", "ORDER_TYPE">>

OpenPOColumns ==
    {ORDER_TYPE_HEADER, N("LINE_TYPE"), N("ITEM"), N("VENDOR_NUM"), N("PO_NUM"),
     N("RELEASE_NUM"), N("LINE_NUM"), N("SHIPMENT_NUM"), N("AUTHORIZATION_STATUS"),
     N("PO_SHIPMENT_CREATION_DATE"), N("QTY_ELIGIBLE_TO_SHIP"), N("UNIT_PRICE"),
     N("CURRNECY")}

WorkbenchColumns ==
    {N("PART_NUMBER"), N("DESCRIPTION"), N("VENDOR_NUM"), N("VENDOR_NAME"), N("DANDB"),
     N("STARS Category Code"), N("ASL_MPN"), N("UNIT_PRICE"), N("CURRENCY_CODE")}

ScenarioC_OpenPO ==
    (ORDER_TYPE_HEADER :> Tok("STANDARD"))
 @@ (N("LINE_TYPE") :> Tok("Inventory"))
 @@ (N("ITEM") :> Tok("X1"))
 @@ (N("VENDOR_NUM") :> Tok("V1"))
 @@ (N("PO_NUM") :> Tok("PO-1"))
 @@ (N("RELEASE_NUM") :> Num(1))
 @@ (N("LINE_NUM") :> Num(1))
 @@ (N("SHIPMENT_NUM") :> Num(1))
 @@ (N("AUTHORIZATION_STATUS") :> Tok("APPROVED"))
 @@ (N("PO_SHIPMENT_CREATION_DATE") :> Date(2024))
 @@ (N("QTY_ELIGIBLE_TO_SHIP") :> Num(5))
 @@ (N("UNIT_PRICE") :> Num(12))
 @@ (N("CURRNECY") :> Tok("EUR"))

ScenarioC_Workbench ==
    (N("PART_NUMBER") :> Tok("X1"))
 @@ (N("DESCRIPTION") :> Tok("part"))
 @@ (N("VENDOR_NUM") :> Tok("V1"))
 @@ (N("VENDOR_NAME") :> Str(<<"A", "c", "m", "e">>))
 @@ (N("DANDB") :> Tok("D-1"))
 @@ (N("STARS Category Code") :> Tok("C1"))
 @@ (N("ASL_MPN") :> Tok("MPN-1"))
 @@ (N("UNIT_PRICE") :> Num(10))
 @@ (N("CURRENCY_CODE") :> Tok("USD"))

\* Scenario C's Open PO record, and the record with one field replaced
OpenPORows ==
    <<ScenarioC_OpenPO,
      [ScenarioC_OpenPO EXCEPT ![N("LINE_TYPE")] = Tok("Service")],
      [ScenarioC_OpenPO EXCEPT ![N("ITEM")] = Tok("X2")],
      [ScenarioC_OpenPO EXCEPT ![N("VENDOR_NUM")] = Tok("V2")],
      [ScenarioC_OpenPO EXCEPT ![N("QTY_ELIGIBLE_TO_SHIP")] = Num(8)],
      [ScenarioC_OpenPO EXCEPT ![N("PO_SHIPMENT_CREATION_DATE")] = Tok("n/a")],
      [ScenarioC_OpenPO EXCEPT ![N("CURRNECY")] = Tok("JPY")]>>

\* Scenario C's Workbench record, and the record with one field replaced
WorkbenchRows ==
    <<ScenarioC_Workbench,
      [ScenarioC_Workbench EXCEPT ![N("PART_NUMBER")] = Tok("X2")],
      [ScenarioC_Workbench EXCEPT ![N("CURRENCY_CODE")] = Tok("GBP")],
      [ScenarioC_Workbench EXCEPT ![N("CURRENCY_CODE")] = Tok("INR")],
      [ScenarioC_Workbench EXCEPT ![N("CURRENCY_CODE")] = Tok("XXX")]>>

\* the tables of 1..n rows taken from list, in the order of the list (the
\* order of the input rows does not survive the sort by impact)
ListedSeqs(list, n) ==
    UNION {{[i \in 1..m |-> list[g[i]]] :
               g \in {h \in [1..m -> 1..Len(list)] : \A i \in 1..(m - 1) : h[i] <= h[i + 1]}} :
           m \in 1..n}

\* the row under another header: column from is named to
Reheaded(row, from, to) ==
    [c \in (DOMAIN row \ {from}) \cup {to} |-> IF c = to THEN row[from] ELSE row[c]]

\* a workbook with a blank after LINE_TYPE and one without the CURRNECY column
OpenPOTablesOdd ==
         {Table((OpenPOColumns \ {N("LINE_TYPE")}) \cup {<<"LINE_TYPE", " ">>},
                <<Reheaded(ScenarioC_OpenPO, N("LINE_TYPE"), <<"LINE_TYPE", " ">>)>>),
          Table(OpenPOColumns \ {N("CURRNECY")},
                <<Restrict(ScenarioC_OpenPO, OpenPOColumns \ {N("CURRNECY")})>>)}

\* workbooks with the expected header, and the odd ones
OpenPOTables ==
    {Table(OpenPOColumns, rows) : rows \in ListedSeqs(OpenPORows, MaxRowsOPO)}
    \cup OpenPOTablesOdd

\* a workbook with blanks around VENDOR_NAME
WorkbenchTablesOdd ==
         {Table((WorkbenchColumns \ {N("VENDOR_NAME")}) \cup {<<" ", "VENDOR_NAME", " ">>},
                <<Reheaded([ScenarioC_Workbench EXCEPT
                                ![N("VENDOR_NAME")] = Str(<<"W", "u", "x", "i">>)],
                           N("VENDOR_NAME"), <<" ", "VENDOR_NAME", " ">>)>>)}

\* workbooks with the expected header, and the odd one
WorkbenchTables ==
    {Table(WorkbenchColumns, rows) : rows \in ListedSeqs(WorkbenchRows, MaxRowsWB)}
    \cup WorkbenchTablesOdd

---------------------------------------------------------------------------
(* A direct call of process_data_opo(open_po_df, workbench_df)             *)

InitOPO ==
    /\ pc = "opo"
    /\ open_po_df \in OpenPOTables
    /\ workbench_df \in WorkbenchTables
    /\ processed_df = None
    /\ st_error = FALSE
    /\ NoWWPCall /\ NoAggCall /\ NoMainRun

CallProcessOPO ==
    /\ pc = "opo"
    /\ LET r == process_data_opo(open_po_df, workbench_df)
       IN  /\ processed_df' \in r.values
           /\ st_error' = r.error
           /\ workbench_df' = r.workbench_df
    /\ pc' = "opo_returned"
    /\ UNCHANGED <<open_po_df, wwpVars, aggVars, mainVars>>

NextOPO == CallProcessOPO

SpecOPO == InitOPO /\ [][NextOPO]_vars

CountRows(rows, P(_)) == Cardinality({i \in 1..Len(rows) : P(rows[i])})

RowValues(rows) == {rows[i] : i \in 1..Len(rows)}

C2_WorkbenchName(c) ==
    CASE c = N("UNIT_PRICE") -> N("UNIT_PRICE_WB")
      [] c = N("DANDB") -> N("VENDOR_DUNS")
      [] c = N("CURRENCY_CODE") -> N("CURRENCY_CODE_WB")
      [] OTHER -> c

C2_OpenPOName(c) ==
    CASE c = N("UNIT_PRICE") -> N("UNIT_PRICE_OPO")
      [] c = N("CURRNECY") -> N("CURRENCY_CODE_OPO")
      [] c = ORDER_TYPE_HEADER -> N("ORDER_TYPE")
      [] OTHER -> c

\* the output row r carries the values of the workbench row w and the Open PO row o
C2_JoinOf(r, w, o) ==
    /\ \A c \in DOMAIN w : r[C2_WorkbenchName(c)] = w[c]
    /\ \A c \in DOMAIN o \ {N("ITEM")} : r[C2_OpenPOName(c)] = o[c]

C2_Matches(w, o) ==
    /\ o[N("LINE_TYPE")] = Tok("Inventory")
    /\ w[N("PART_NUMBER")] = o[N("ITEM")]
    /\ w[N("VENDOR_NUM")] = o[N("VENDOR_NUM")]

\* C2: when process_data_opo succeeds, for every key (part, vendor) the number
\* of output rows with that key is the number of workbench rows with the key
\* times the number of Inventory Open PO rows with the key; every matching pair
\* of rows is in the output as often as the pair occurs in the inputs, and
\* every output row is the join of such a pair.
C2_JoinCardinality ==
    (pc = "opo_returned" /\ ~processed_df.isNone) =>
        LET out == processed_df.rows
            W == workbench_df.rows
            O == open_po_df.rows
            parts == {W[i][N("PART_NUMBER")] : i \in 1..Len(W)}
                     \cup {O[i][N("ITEM")] : i \in 1..Len(O)}
                     \cup {out[i][N("PART_NUMBER")] : i \in 1..Len(out)}
            vendors == {W[i][N("VENDOR_NUM")] : i \in 1..Len(W)}
                       \cup {O[i][N("VENDOR_NUM")] : i \in 1..Len(O)}
                       \cup {out[i][N("VENDOR_NUM")] : i \in 1..Len(out)}
        IN  /\ \A p \in parts, v \in vendors :
                  CountRows(out, LAMBDA r : r[N("PART_NUMBER")] = p /\ r[N("VENDOR_NUM")] = v)
                  = CountRows(W, LAMBDA w : w[N("PART_NUMBER")] = p /\ w[N("VENDOR_NUM")] = v)
                    * CountRows(O, LAMBDA o : /\ o[N("LINE_TYPE")] = Tok("Inventory")
                                              /\ o[N("ITEM")] = p
                                              /\ o[N("VENDOR_NUM")] = v)
            /\ \A w \in RowValues(W), o \in RowValues(O) :
                  C2_Matches(w, o) =>
                      CountRows(out, LAMBDA r : C2_JoinOf(r, w, o))
                      = CountRows(W, LAMBDA x : x = w) * CountRows(O, LAMBDA x : x = o)
            /\ \A i \in 1..Len(out) :
                  \E w \in RowValues(W), o \in RowValues(O) :
                      C2_Matches(w, o) /\ C2_JoinOf(out[i], w, o)

\* two workbench rows with the key of an Inventory row and of a Service row
\* give two rows: the Service row contributes none
C2_Witness ==
    /\ pc = "opo_returned"
    /\ Len(workbench_df.rows) = 2
    /\ workbench_df.rows[1] = ScenarioC_Workbench
    /\ workbench_df.rows[2] # ScenarioC_Workbench
    /\ workbench_df.rows[2][N("PART_NUMBER")] = Tok("X1")
    /\ open_po_df.rows
         = <<ScenarioC_OpenPO, [ScenarioC_OpenPO EXCEPT ![N("LINE_TYPE")] = Tok("Service")]>>
    /\ ~processed_df.isNone
    /\ Len(processed_df.rows) = 2

\* price times num/den, as a cell
C3_Scaled(price, num, den) == Rat(price.n * num, price.d * den)

\* the conversion table of the claim
C3_Expected(price, currency) ==
    CASE currency = Tok("USD") -> C3_Scaled(price, 93, 100)
      [] currency = Tok("GBP") -> C3_Scaled(price, 12, 10)
      [] currency = Tok("INR") -> C3_Scaled(price, 11, 1000)
      [] currency = Tok("JPY") -> C3_Scaled(price, 61, 10000)
      [] OTHER -> price

C3_NoOtherFailure ==
    /\ OpenPOColumns \ {ORDER_TYPE_HEADER} \subseteq open_po_df.cols
    /\ \A i \in 1..Len(open_po_df.rows) :
          open_po_df.rows[i][N("PO_SHIPMENT_CREATION_DATE")].k = "date"

\* C3: every converted price of a returned row is the row's price times the
\* table rate of the row's currency (USD 0.93, GBP 1.2, INR 0.011, JPY 0.0061)
\* and the price itself for any other code, EUR included; a call whose header
\* and dates are in order does not fail whatever the currency codes are.
C3_ConvertToEuro ==
    pc = "opo_returned" =>
        /\ C3_NoOtherFailure => ~st_error /\ ~processed_df.isNone
        /\ \A i \in 1..Len(processed_df.rows) :
              LET r == processed_df.rows[i]
              IN  /\ r[N("UNIT_PRICE_WB_EUR")]
                       = C3_Expected(r[N("UNIT_PRICE_WB")], r[N("CURRENCY_CODE_WB")])
                  /\ r[N("UNIT_PRICE_OPO_EUR")]
                       = C3_Expected(r[N("UNIT_PRICE_OPO")], r[N("CURRENCY_CODE_OPO")])

\* a returned row priced in an unknown code on one side and in EUR on the
\* other, both prices unchanged, next to a row converted from JPY
C3_Witness ==
    /\ pc = "opo_returned"
    /\ ~processed_df.isNone
    /\ \E i \in 1..Len(processed_df.rows) :
          LET r == processed_df.rows[i]
          IN  /\ r[N("CURRENCY_CODE_WB")] = Tok("XXX")
              /\ r[N("UNIT_PRICE_WB_EUR")] = Num(10)
              /\ r[N("CURRENCY_CODE_OPO")] = Tok("EUR")
              /\ r[N("UNIT_PRICE_OPO_EUR")] = Num(12)
    /\ \E i \in 1..Len(processed_df.rows) :
          LET r == processed_df.rows[i]
          IN  /\ r[N("CURRENCY_CODE_OPO")] = Tok("JPY")
              /\ r[N("UNIT_PRICE_OPO_EUR")] = Rat(732, 10000)

\* C4: on every returned row Price_Delta is the converted Open PO price minus
\* the converted Workbench price, each converted with its own side's currency
\* code, Impact in Euros is Price_Delta times QTY_ELIGIBLE_TO_SHIP and Open PO
\* Value is QTY_ELIGIBLE_TO_SHIP times the converted Open PO price; Scenario C
\* gives 9.3, 12, 2.7 and 13.5.
C4_Metrics ==
    (pc = "opo_returned" /\ ~processed_df.isNone) =>
        /\ \A i \in 1..Len(processed_df.rows) :
              LET r == processed_df.rows[i]
                  wb == C3_Expected(r[N("UNIT_PRICE_WB")], r[N("CURRENCY_CODE_WB")])
                  opo == C3_Expected(r[N("UNIT_PRICE_OPO")], r[N("CURRENCY_CODE_OPO")])
                  qty == r[N("QTY_ELIGIBLE_TO_SHIP")]
                  delta == Rat(opo.n * wb.d - wb.n * opo.d, opo.d * wb.d)
              IN  /\ r[N("UNIT_PRICE_WB_EUR")] = wb
                  /\ r[N("UNIT_PRICE_OPO_EUR")] = opo
                  /\ r[N("Price_Delta")] = delta
                  /\ r[N("Impact in Euros")] = Rat(delta.n * qty.n, delta.d * qty.d)
                  /\ r[N("Open PO Value")] = Rat(qty.n * opo.n, qty.d * opo.d)
        /\ (open_po_df.rows = <<ScenarioC_OpenPO>>
            /\ workbench_df.rows = <<ScenarioC_Workbench>>) =>
              /\ Len(processed_df.rows) = 1
              /\ processed_df.rows[1][N("UNIT_PRICE_WB_EUR")] = Rat(93, 10)
              /\ processed_df.rows[1][N("UNIT_PRICE_OPO_EUR")] = Num(12)
              /\ processed_df.rows[1][N("Price_Delta")] = Rat(27, 10)
              /\ processed_df.rows[1][N("Impact in Euros")] = Rat(135, 10)

\* Scenario C has been processed
C4_Witness ==
    /\ pc = "opo_returned"
    /\ open_po_df = Table(OpenPOColumns, <<ScenarioC_OpenPO>>)
    /\ workbench_df = Table(WorkbenchColumns, <<ScenarioC_Workbench>>)
    /\ ~processed_df.isNone
    /\ Len(processed_df.rows) = 1
    /\ processed_df.rows[1][N("Impact in Euros")] = Rat(27, 2)

\* C8: the returned rows are in non-increasing order of Impact in Euros, and
\* they are the rows of the joined and enriched set, each as often as there.
C8_SortedByImpact ==
    (pc = "opo_returned" /\ ~processed_df.isNone) =>
        LET out == processed_df.rows
            joined == WithMetrics(WithConversions(
                          JoinedRecordSet(open_po_df, workbench_df))).rows
        IN  /\ \A i \in 1..(Len(out) - 1) :
                  LET a == out[i][N("Impact in Euros")]
                      b == out[i + 1][N("Impact in Euros")]
                  IN  a.k = "num" /\ b.k = "num" /\ a.n * b.d >= b.n * a.d
            /\ Len(out) = Len(joined)
            /\ \A r \in RowValues(out) \cup RowValues(joined) :
                  CountRows(out, LAMBDA x : x = r) = CountRows(joined, LAMBDA x : x = r)

\* four returned rows, of which the first has a greater impact than the last
\* and the input had them in the opposite order
C8_Witness ==
    /\ pc = "opo_returned"
    /\ ~processed_df.isNone
    /\ Len(processed_df.rows) = 4
    /\ FloatGt(processed_df.rows[1][N("Impact in Euros")],
               processed_df.rows[4][N("Impact in Euros")])
    /\ workbench_df.rows[1][N("CURRENCY_CODE")] = Tok("USD")
    /\ workbench_df.rows[2][N("CURRENCY_CODE")] = Tok("INR")
    /\ processed_df.rows[1][N("CURRENCY_CODE_WB")] = Tok("INR")

---------------------------------------------------------------------------
(* Inputs of the insight functions: enriched_df tables of up to MaxRowsAgg    *)
(* rows.  Row i carries the i-th amount of the specification's example     *)
(* (100, 50, 200, 10, 75, ...), so that sums tie only now and then, and    *)
(* either shares its supplier (vendor) or its category with row 1 or has   *)
(* both of its own.                                                        *)

MaxRowsAgg == 6

AggAmounts == <<100, 50, 200, 10, 75, 50, 100, 10>>
AggAmount(i) == AggAmounts[((i - 1) % Len(AggAmounts)) + 1]
AggSuppliers == <<"S1", "S2", "S3", "S4", "S5", "S6", "S7", "S8">>
AggCategories == <<"C1", "C2", "C3", "C4", "C5", "C6", "C7", "C8">>
AggSupplier(i, c) == Tok(AggSuppliers[IF c = 1 THEN 1 ELSE ((i - 1) % Len(AggSuppliers)) + 1])
AggCategory(i, c) == Tok(AggCategories[IF c = 2 THEN 1 ELSE ((i - 1) % Len(AggCategories)) + 1])
AggChoices == 1..3
OPOImpactShift == 60

EnrichedRowWWP(i, c) ==
    [col \in {"Supplier Name", "Category Code", "Total Opportunity", "Absolute Opportunity",
              "Qty/projection"} |->
        CASE col = "Supplier Name" -> AggSupplier(i, c)
          [] col = "Category Code" -> AggCategory(i, c)
          [] col = "Total Opportunity" -> Num(-AggAmount(i))
          [] col = "Absolute Opportunity" -> Num(AggAmount(i))
          [] OTHER -> Num(i)]

EnrichedRowOPO(i, c) ==
    [col \in {N("VENDOR_NAME"), N("STARS Category Code"), N("PART_NUMBER"),
              N("Impact in Euros"), N("Open PO Value")} |->
        CASE col = N("VENDOR_NAME") -> AggSupplier(i, c)
          [] col = N("STARS Category Code") -> AggCategory(i, c)
          [] col = N("PART_NUMBER") -> AggSupplier(i, IF c = 3 THEN 1 ELSE 3)
          [] col = N("Impact in Euros") -> Num(AggAmount(i) - OPOImpactShift)
          [] OTHER -> Num(AggAmount(i))]

AggChoiceSeqs == UNION {[1..m -> AggChoices] : m \in 0..MaxRowsAgg}

\* a supplier that is missing (NaN) beside two that are there
NaNKeyTableWWP ==
    Table(DOMAIN EnrichedRowWWP(1, 3),
          <<EnrichedRowWWP(1, 3),
            [EnrichedRowWWP(2, 3) EXCEPT !["Supplier Name"] = NaN],
            EnrichedRowWWP(3, 3)>>)

EnrichedTablesWWP ==
    {Table(DOMAIN EnrichedRowWWP(1, 1), [i \in DOMAIN cs |-> EnrichedRowWWP(i, cs[i])]) :
        cs \in AggChoiceSeqs} \cup {NaNKeyTableWWP}

EnrichedTablesOPO ==
    {Table(DOMAIN EnrichedRowOPO(1, 1), [i \in DOMAIN cs |-> EnrichedRowOPO(i, cs[i])]) :
        cs \in AggChoiceSeqs}

---------------------------------------------------------------------------
(* A direct call of generate_insights_wwp(df) or generate_insights_opo(df) *)

InitAgg ==
    /\ \/ pc = "insights_wwp" /\ enriched_df \in EnrichedTablesWWP
       \/ pc = "insights_opo" /\ enriched_df \in EnrichedTablesOPO
    /\ insights = NoSummary
    /\ st_error = FALSE
    /\ NoWWPCall /\ NoOPOCall /\ NoMainRun

CallInsightsWWP ==
    /\ pc = "insights_wwp"
    /\ insights' \in generate_insights_wwp(enriched_df)
    /\ pc' = "insights_wwp_returned"
    /\ UNCHANGED <<enriched_df, st_error, wwpVars, opoVars, mainVars>>

CallInsightsOPO ==
    /\ pc = "insights_opo"
    /\ insights' \in generate_insights_opo(enriched_df)
    /\ pc' = "insights_opo_returned"
    /\ UNCHANGED <<enriched_df, st_error, wwpVars, opoVars, mainVars>>

NextAgg == CallInsightsWWP \/ CallInsightsOPO

SpecAgg == InitAgg /\ [][NextAgg]_vars

RECURSIVE C9_Sum(_, _, _, _)
\* the sum of the (whole-number) target amounts of the rows whose by-column is key
C9_Sum(rows, by, key, target) ==
    IF Len(rows) = 0 THEN 0
    ELSE (IF Head(rows)[by] = key THEN Head(rows)[target].n ELSE 0)
         + C9_Sum(Tail(rows), by, key, target)

C9_Groups(rows, by) == {rows[i][by] : i \in 1..Len(rows)} \ {NaN}

C9_TopK(list, rows, by, target, K) ==
    LET groups == C9_Groups(rows, by)
        included == {list[i].key : i \in 1..Len(list)}
    IN  /\ Len(list) = IF Cardinality(groups) < K THEN Cardinality(groups) ELSE K
        /\ \A i \in 1..Len(list) :
              /\ list[i].key \in groups
              /\ list[i].sum = Num(C9_Sum(rows, by, list[i].key, target))
        /\ \A i, j \in 1..Len(list) :
              i < j => list[i].key # list[j].key /\ list[i].sum.n >= list[j].sum.n
        /\ \A g \in groups \ included : \A i \in 1..Len(list) :
              C9_Sum(rows, by, g, target) <= list[i].sum.n

\* the five groups of the specification's example: sums 100, 50, 200, 10, 75
C9_ExampleTable ==
    Table(DOMAIN EnrichedRowWWP(1, 3), [i \in 1..5 |-> EnrichedRowWWP(i, 3)])

C9_Example ==
    {[i \in DOMAIN s |-> s[i].sum.n] :
        s \in TopOrders(GroupSums(C9_ExampleTable, "Supplier Name", "Absolute Opportunity"),
                        3)}
      = {<<200, 100, 75>>}

\* C9: each ranked list of an insight summary holds, for min(5, number of
\* groups) groups of its grouping column, the group's value and the sum of the
\* target column over the group's rows, in descending order of the sum, and no
\* group left out has a larger sum than a group in the list; the five sums
\* 100, 50, 200, 10, 75 with K = 3 give 200, 100, 75.
C9_TopKAggregation ==
    /\ pc = "insights_wwp_returned" =>
          /\ ~insights.raised /\ ~insights.isNone
          /\ C9_TopK(insights.top_suppliers, enriched_df.rows, "Supplier Name",
                     "Absolute Opportunity", 5)
          /\ C9_TopK(insights.top_categories, enriched_df.rows, "Category Code",
                     "Absolute Opportunity", 5)
    /\ pc = "insights_opo_returned" /\ ~insights.isNone =>
          /\ ~insights.raised
          /\ C9_TopK(insights.impact_by_vendor, enriched_df.rows, N("VENDOR_NAME"),
                     N("Impact in Euros"), 5)
          /\ C9_TopK(insights.impact_by_category, enriched_df.rows, N("STARS Category Code"),
                     N("Impact in Euros"), 5)
    /\ C9_Example

\* six vendors of which five are listed, and a category summed over several rows
C9_Witness ==
    /\ pc = "insights_opo_returned" /\ ~insights.isNone
    /\ Cardinality(C9_Groups(enriched_df.rows, N("VENDOR_NAME"))) = 6
    /\ Len(insights.impact_by_vendor) = 5
    /\ Cardinality(C9_Groups(enriched_df.rows, N("STARS Category Code"))) = 4
    /\ Len(insights.impact_by_category) = 4
    /\ insights.impact_by_category[4].key = Tok("C1")

\* C10 (as the specification states it): called with a table of zero rows, the
\* insight functions do not raise and return a summary whose sums and counts
\* are 0 and whose ranked lists are empty, never None and never an undefined
\* value.
C10_EmptyTolerated ==
    /\ pc = "insights_wwp_returned" /\ Len(enriched_df.rows) = 0 =>
          /\ ~insights.raised /\ ~insights.isNone
          /\ insights.total_opportunity = Num(0)
          /\ insights.avg_qty_projection.k = "num"
          /\ insights.top_suppliers = <<>> /\ insights.top_categories = <<>>
    /\ pc = "insights_opo_returned" /\ Len(enriched_df.rows) = 0 =>
          /\ ~insights.raised /\ ~insights.isNone
          /\ insights.total_impact = Num(0) /\ insights.total_po_value = Num(0)
          /\ insights.distinct_parts_count = 0 /\ insights.unique_vendors = 0
          /\ insights.impact_by_vendor = <<>> /\ insights.impact_by_category = <<>>

---------------------------------------------------------------------------
(* The page script main.  One run of main is the operator main: it maps    *)
(* what the widgets return to the possible outcomes of the run, an outcome *)
(* being the elements put on the page, the functions called, the locals    *)
(* of the run and whether an exception left the script.                    *)

FileTable(f) == Table(f.cols, f.rows)

Blank ==
    [screen |-> {}, calls |-> {}, raised |-> FALSE, st_error |-> FALSE,
     df |-> None, df_processed |-> None,
     open_po_df |-> None, workbench_df |-> None, processed_df |-> None,
     insights |-> NoSummary]

Show(o, elements) == [o EXCEPT !.screen = @ \cup elements]
Raise(o) == [o EXCEPT !.raised = TRUE]
Called(o, f) == [o EXCEPT !.calls = @ \cup {f}]

ResultElements == {"metrics", "charts", "table", "download", "top_tables"}

\* pd.read_csv / pd.read_excel raise on a file they cannot parse
ReadRaises(f) == ~f.readable

\* pd.read_excel(..., usecols=[...]) also raises when a listed column is not in the sheet
ReadUsecolsRaises(f, usecols) == ~f.readable \/ ~(usecols \subseteq f.cols)

\* create_visualizations_wwp: three figures, KeyError on a missing column
create_visualizations_wwp(t) ==
    IF ~({"Category Code", "Absolute Opportunity", "Supplier Name"} \subseteq t.cols)
    THEN [raised |-> TRUE, figures |-> 0]
    ELSE [raised |-> FALSE, figures |-> 3]

\* create_visualizations_opo: None for None or an empty table, else four figures
create_visualizations_opo(t) ==
    IF t.isNone \/ Len(t.rows) = 0 THEN [raised |-> FALSE, figures |-> 0]
    ELSE IF ~({N("STARS Category Code"), N("Impact in Euros"), N("VENDOR_NAME"),
               N("IG/OG"), N("PO_SHIPMENT_CREATION_DATE")} \subseteq t.cols)
    THEN [raised |-> TRUE, figures |-> 0]
    ELSE [raised |-> FALSE, figures |-> 4]

\* the except clause of a workflow: the exception ends there, an error and a hint are shown
Mutant_TryExcept(o) == o

TryExcept(o) ==
    IF o.raised THEN [Show(o, {"error", "info"}) EXCEPT !.raised = FALSE] ELSE o

\* what follows process_dataframe_wwp inside the try block
RenderWWP(o) ==
    IF ~o.df_processed.isNone /\ Len(o.df_processed.rows) > 0
    THEN {LET o1 == [Called(o, "generate_insights_wwp") EXCEPT !.insights = s]
              o2 == Show(o1, {"metrics"})
          IN  IF s.raised THEN Raise(o1)
              ELSE IF "Supplier Name" \notin o.df_processed.cols THEN Raise(o1)
              ELSE IF create_visualizations_wwp(o.df_processed).raised
                   THEN Raise(Called(o2, "create_visualizations_wwp"))
              ELSE Show(Called(o2, "create_visualizations_wwp"), ResultElements) :
            s \in generate_insights_wwp(o.df_processed)}
    ELSE {Show(o, {"warning"})}

\* the try block of the WWP workflow
BodyWWP(f, o) ==
    IF ReadRaises(f) THEN {Raise(o)}
    ELSE UNION {RenderWWP([Called(Show(o, {"success"}
                                            \cup IF r.error THEN {"error"} ELSE {}),
                                   "process_dataframe_wwp")
                              EXCEPT !.df = FileTable(f), !.df_processed = r.value,
                                     !.st_error = r.error]) :
                   r \in {process_dataframe_wwp(FileTable(f))}}

\* what follows process_data_opo inside the try block
RenderOPO(o) ==
    IF ~o.processed_df.isNone /\ Len(o.processed_df.rows) > 0
    THEN {LET o1 == [Called(o, "generate_insights_opo") EXCEPT !.insights = s]
              o2 == Called(Show(o1, {"metrics"}), "create_visualizations_opo")
              figures == create_visualizations_opo(o.processed_df)
          IN  IF s.raised THEN Raise(o1)
              ELSE IF s.isNone THEN o1
              ELSE IF figures.raised THEN Raise(o2)
              ELSE Show(o2, (ResultElements \ {"charts"})
                              \cup IF figures.figures > 0 THEN {"charts"} ELSE {}) :
            s \in generate_insights_opo(o.processed_df)}
    ELSE {Show(o, {"warning"})}

\* pd.read_excel(file, usecols=[...]): the listed columns of the sheet
read_excel(f, usecols) ==
    Table(usecols, [i \in DOMAIN f.rows |-> Restrict(f.rows[i], usecols)])

\* the two tables read and what process_data_opo makes of them
ProcessedOPO(of, wf) ==
    {[open_po_df |-> po, r |-> process_data_opo(po, wb)] :
        po \in {read_excel(of, OpenPOColumns)}, wb \in {read_excel(wf, WorkbenchColumns)}}

\* the try block of the OPO workflow
BodyOPO(of, wf, o) ==
    IF \/ ReadUsecolsRaises(of, OpenPOColumns)
       \/ ReadUsecolsRaises(wf, WorkbenchColumns)
    THEN {Raise(o)}
    ELSE UNION {UNION {RenderOPO([Called(Show(o, {"success"}
                                                 \cup IF x.r.error THEN {"error"} ELSE {}),
                                         "process_data_opo")
                                    EXCEPT !.open_po_df = x.open_po_df,
                                           !.workbench_df = x.r.workbench_df,
                                           !.processed_df = v,
                                           !.st_error = x.r.error]) :
                          v \in x.r.values} :
                   x \in ProcessedOPO(of, wf)}

AnalysisTypes == {"Worldwide Price Analysis", "Open PO Analysis"}

\* One run of the script.  The else of line 462 belongs to the test
\* "uploaded_file is not None" of line 364, inside the WWP branch of line 360.
main(type, uf, of, wf) ==
    IF type = "Worldwide Price Analysis"
    THEN LET wwp == Show(Blank, {"title_wwp", "uploader_wwp"})
         IN  IF uf.present
             THEN {TryExcept(o) : o \in BodyWWP(uf, wwp)}
             ELSE LET opo == Show(wwp, {"title_opo", "uploader_open_po",
                                        "uploader_workbench"})
                  IN  IF of.present /\ wf.present
                      THEN {TryExcept(o) : o \in BodyOPO(of, wf, opo)}
                      ELSE {opo}
    ELSE {Blank}

---------------------------------------------------------------------------
(* The page as a state machine.  Every interaction of the user with a      *)
(* widget that is on the page sets what the widget returns and has the     *)
(* script rerun from the top (pc = "main"); the run ends with the page     *)
(* waiting for the user (pc = "page").  A widget that a run does not       *)
(* create loses its value.                                                 *)

\* the files a user may upload: one-record files, a few two-record files, files
\* with a column missing or an odd header, and a file that is not a workbook
WWPFiles ==
    {File(Table(WWPColumns, <<r>>)) : r \in WWPRows}
    \cup {File(Table(WWPColumns, <<ScenarioA, r>>)) :
             r \in {ScenarioB, [ScenarioA EXCEPT !["Supplier Name"] = Tok("S2")]}}
    \cup {File(t) : t \in WWPTablesShort}
    \cup {Unreadable}

OpenPOFiles ==
    {File(Table(OpenPOColumns, rows)) : rows \in ListedSeqs(OpenPORows, 1)}
    \cup {File(Table(OpenPOColumns, <<OpenPORows[1], OpenPORows[3]>>))}
    \cup {File(t) : t \in OpenPOTablesOdd}
    \cup {Unreadable}

WorkbenchFiles ==
    {File(Table(WorkbenchColumns, rows)) : rows \in ListedSeqs(WorkbenchRows, 1)}
    \cup {File(Table(WorkbenchColumns, <<WorkbenchRows[1], WorkbenchRows[2]>>))}
    \cup {File(t) : t \in WorkbenchTablesOdd}
    \cup {Unreadable}

Kept(f, widget, o) == IF widget \in o.screen THEN f ELSE NoFile

runVars == <<screen, calls, main_raised, st_error, wwpVars, opoVars, insights>>

\* the session starts: the radio returns its first option, the uploaders None,
\* and the script is about to run for the first time
InitMain ==
    /\ pc = "main"
    /\ analysis_type = "Worldwide Price Analysis"
    /\ uploaded_file = NoFile /\ open_po_file = NoFile /\ workbench_file = NoFile
    /\ screen = {} /\ calls = {} /\ main_raised = FALSE
    /\ st_error = FALSE
    /\ NoWWPCall /\ NoOPOCall /\ NoAggCall

\* one run of the script, from the top to its end
Main ==
    /\ pc = "main"
    /\ \E o \in main(analysis_type, uploaded_file, open_po_file, workbench_file) :
        /\ uploaded_file' = Kept(uploaded_file, "uploader_wwp", o)
        /\ open_po_file' = Kept(open_po_file, "uploader_open_po", o)
        /\ workbench_file' = Kept(workbench_file, "uploader_workbench", o)
        /\ screen' = o.screen
        /\ calls' = o.calls
        /\ main_raised' = o.raised
        /\ st_error' = o.st_error
        /\ df' = o.df
        /\ df_processed' = o.df_processed
        /\ open_po_df' = o.open_po_df
        /\ workbench_df' = o.workbench_df
        /\ processed_df' = o.processed_df
        /\ insights' = o.insights
    /\ pc' = "page"
    /\ UNCHANGED <<analysis_type, enriched_df>>

SelectAnalysisType ==
    /\ pc = "page"
    /\ analysis_type' \in AnalysisTypes \ {analysis_type}
    /\ pc' = "main"
    /\ UNCHANGED <<uploaded_file, open_po_file, workbench_file, runVars, enriched_df>>

UploadWWP ==
    /\ pc = "page" /\ "uploader_wwp" \in screen
    /\ uploaded_file' \in WWPFiles
    /\ pc' = "main"
    /\ UNCHANGED <<analysis_type, open_po_file, workbench_file, runVars, enriched_df>>

RemoveWWP ==
    /\ pc = "page" /\ "uploader_wwp" \in screen /\ uploaded_file.present
    /\ uploaded_file' = NoFile
    /\ pc' = "main"
    /\ UNCHANGED <<analysis_type, open_po_file, workbench_file, runVars, enriched_df>>

UploadOpenPO ==
    /\ pc = "page" /\ "uploader_open_po" \in screen
    /\ open_po_file' \in OpenPOFiles
    /\ pc' = "main"
    /\ UNCHANGED <<analysis_type, uploaded_file, workbench_file, runVars, enriched_df>>

UploadWorkbench ==
    /\ pc = "page" /\ "uploader_workbench" \in screen
    /\ workbench_file' \in WorkbenchFiles
    /\ pc' = "main"
    /\ UNCHANGED <<analysis_type, uploaded_file, open_po_file, runVars, enriched_df>>

NextMain ==
    \/ Main
    \/ SelectAnalysisType
    \/ UploadWWP
    \/ RemoveWWP
    \/ UploadOpenPO
    \/ UploadWorkbench

SpecMain == InitMain /\ [][NextMain]_vars

\* C5 (as the specification states it): at the end of every run of main, the
\* Open PO upload controls are on the page exactly when the selected analysis
\* type is "Open PO Analysis", whatever the WWP uploader holds; with that type
\* selected and both workbooks uploaded and readable process_data_opo was
\* run; and with "Worldwide Price Analysis" selected and a readable WWP file
\* uploaded process_dataframe_wwp was run.
C5_WorkflowsIndependent ==
    pc = "page" =>
        /\ {"uploader_open_po", "uploader_workbench"} \subseteq screen
              <=> analysis_type = "Open PO Analysis"
        /\ "process_data_opo" \in calls => analysis_type = "Open PO Analysis"
        /\ /\ analysis_type = "Open PO Analysis"
           /\ open_po_file.readable /\ OpenPOColumns \subseteq open_po_file.cols
           /\ workbench_file.readable /\ WorkbenchColumns \subseteq workbench_file.cols
           => "process_data_opo" \in calls
        /\ analysis_type = "Worldwide Price Analysis" /\ uploaded_file.readable
           => "process_dataframe_wwp" \in calls

\* a stage of the run failed: a file could not be read, a pipeline function
\* reported an error, or the insight function raised
C6_StageFailed ==
    \/ uploaded_file.present /\ ~uploaded_file.readable
    \/ /\ open_po_file.present /\ workbench_file.present
       /\ \/ ~open_po_file.readable \/ ~(OpenPOColumns \subseteq open_po_file.cols)
          \/ ~workbench_file.readable \/ ~(WorkbenchColumns \subseteq workbench_file.cols)
    \/ st_error
    \/ insights.raised

\* a column that process_dataframe_wwp reads is not in the uploaded file
C6_RequiredColumnMissing ==
    uploaded_file.readable /\ ~((WWPColumns \ {"Supplier Name"}) \subseteq uploaded_file.cols)

\* C6: every run of main ends normally, and when a stage of the run failed the
\* page shows an error message and none of metrics, charts, table, download
\* link and top tables.
C6_NoUncaughtException ==
    pc = "page" =>
        /\ ~main_raised
        /\ C6_StageFailed \/ C6_RequiredColumnMissing =>
              "error" \in screen /\ screen \cap ResultElements = {}
        /\ screen \cap ResultElements # {} => "error" \notin screen

\* the uploaded file has no Supplier Name: the pipeline succeeds, the insight
\* function raises KeyError, and the run ends with the error on the page
C6_Witness ==
    /\ pc = "page"
    /\ uploaded_file.readable /\ "Supplier Name" \notin uploaded_file.cols
    /\ "generate_insights_wwp" \in calls /\ insights.raised /\ ~st_error
    /\ "error" \in screen /\ ~main_raised

C7_ProcessingSucceeded ==
    /\ calls \cap {"process_dataframe_wwp", "process_data_opo"} # {}
    /\ ~st_error /\ ~insights.raised

C7_EmptyResult ==
    \/ "process_dataframe_wwp" \in calls /\ Len(df_processed.rows) = 0
    \/ "process_data_opo" \in calls /\ Len(processed_df.rows) = 0

\* C7 (as the specification states it): at the end of every run of main the
\* "no data matches" notice is on the page exactly when processing succeeded
\* with an empty result, and never together with an error message.
C7_EmptyNoticeDistinct ==
    pc = "page" =>
        /\ "warning" \in screen <=> C7_ProcessingSucceeded /\ C7_EmptyResult
        /\ "warning" \in screen => "error" \notin screen

\* the labels of the rows of a table that carries them
C11_Labels(t) == [i \in 1..Len(t.rows) |-> t.rows[i][INDEX].n]

\* the row of the table with the given label
C11_RowOf(t, label) == t.rows[CHOOSE i \in 1..Len(t.rows) : t.rows[i][INDEX].n = label]

\* C11: when process_dataframe_wwp succeeds on a table with row labels 0..n-1,
\* renaming and coercion keep the row count and the labels, the labels of the
\* output are strictly increasing labels of the input (no row duplicated,
\* invented or reordered), every output row has the values of the canonical
\* row with its label, and its Absolute Opportunity is the absolute value of
\* that row's Total Opportunity, at least 5000.
C11_SubsetInOrder ==
    (pc = "wwp_returned" /\ ~df_processed.isNone /\ INDEX \in df.cols) =>
        LET canonical == CanonicalRecordSet(df)
            out == df_processed.rows
        IN  /\ Len(canonical.rows) = Len(df.rows)
            /\ C11_Labels(canonical) = [i \in 1..Len(df.rows) |-> i - 1]
            /\ \A i \in 1..Len(out) : out[i][INDEX].n \in 0..(Len(df.rows) - 1)
            /\ \A i, j \in 1..Len(out) : i < j => out[i][INDEX].n < out[j][INDEX].n
            /\ \A i \in 1..Len(out) :
                  LET orig == C11_RowOf(canonical, out[i][INDEX].n)
                      opp == orig["Total Opportunity"]
                      absolute == out[i]["Absolute Opportunity"]
                  IN  /\ Restrict(out[i], canonical.cols) = orig
                      /\ opp.k = "num" /\ absolute.k = "num"
                      /\ absolute.d = opp.d
                      /\ absolute.n = (IF opp.n < 0 THEN -opp.n ELSE opp.n)
                      /\ absolute.n >= 5000 * absolute.d

\* the first and the last row of a labelled table survive, in that order, with
\* different opportunities
C11_Witness ==
    /\ pc = "wwp_returned" /\ ~df_processed.isNone /\ INDEX \in df.cols
    /\ Len(df.rows) = MaxRowsWWP
    /\ Len(df_processed.rows) = 2
    /\ df_processed.rows[1][INDEX].n = 0
    /\ df_processed.rows[2][INDEX].n = MaxRowsWWP - 1
    /\ df_processed.rows[1]["Total Opportunity"] # df_processed.rows[2]["Total Opportunity"]

\* C12 (as the specification states it): at the end of every run of main in
\* which process_dataframe_wwp returned a table, every row of the table has a
\* finite number as its Qty/projection, and the avg_qty_projection that
\* generate_insights_wwp computed from it is a finite number.
C12_FiniteRatio ==
    (pc = "page" /\ "process_dataframe_wwp" \in calls /\ ~df_processed.isNone) =>
        /\ \A i \in 1..Len(df_processed.rows) :
              df_processed.rows[i]["Qty/projection"].k = "num"
        /\ ("generate_insights_wwp" \in calls /\ ~insights.raised) =>
              insights.avg_qty_projection.k = "num"

\* C13 (as the specification states it): no step of a call of
\* process_dataframe_wwp or process_data_opo, successful or failed, changes a
\* table the caller passed in: rows, values and column names, stray blanks of
\* a header included, stay as they were.
C13_InputsImmutable ==
    [][/\ df' = df
       /\ open_po_df' = open_po_df
       /\ workbench_df' = workbench_df]_vars

====
